---- MODULE Spec2Model ----
(***************************************************************************)
(* Model of src/src/socket_shell.rs: the WebSocket <-> local shell bridge. *)
(*                                                                         *)
(* handle_socket registers the session, spawns three tasks (the adapter    *)
(* task running start_local_shell, the outbound pump and the inbound pump) *)
(* and returns when the first of them completes.  start_local_shell spawns *)
(* /bin/bash, starts the stdout, stderr and stdin pumps and returns when   *)
(* the first of {stdout pump, stderr pump, stdin pump, child.wait()}       *)
(* completes.  tokio::spawn detaches a task when its JoinHandle is         *)
(* dropped, so every pump keeps running after the select! that awaited it  *)
(* has returned.                                                           *)
(*                                                                         *)
(* Text is a sequence of one-character strings.  The token "T" stands for  *)
(* the word __SYSTEM_INFO__ ; the searched needle "__SYSTEM_INFO__:" is    *)
(* therefore the two-element sequence <<"T", ":">>, which a read boundary  *)
(* can cut in two.  Only ASCII text is modelled, on which                  *)
(* String::from_utf8_lossy is the identity; timestamps are not modelled.   *)
(***************************************************************************)
EXTENDS Integers, Sequences, FiniteSets, TLC

\* ------------------------------------------------------------- bounds ----
MaxConns == 2          \* connections (instances of handle_socket)
MaxFrames == 2         \* frames a client sends on one connection
MaxStdoutReads == 2    \* data chunks read from one child's stdout
MaxStderrReads == 1    \* data chunks read from one child's stderr

Conns == 1..MaxConns
Ids == 1..MaxConns            \* the k-th value returned by Uuid::new_v4

\* --------------------------------------------------------- text helpers --
NL == "\n"
TAG == "T"
TagColon == <<TAG, ":">>

\* str::contains(&str)
Contains(s, needle) ==
    \E i \in 1..(Len(s) - Len(needle) + 1) :
        SubSeq(s, i, i + Len(needle) - 1) = needle

\* str::contains(char)
ContainsChar(s, ch) == \E i \in 1..Len(s) : s[i] = ch

\* str::split(char): n separators give n+1 parts, empty parts are kept
RECURSIVE SplitFrom(_, _, _, _)
SplitFrom(s, ch, i, cur) ==
    IF i > Len(s) THEN <<cur>>
    ELSE IF s[i] = ch THEN <<cur>> \o SplitFrom(s, ch, i + 1, <<>>)
    ELSE SplitFrom(s, ch, i + 1, Append(cur, s[i]))

Split(s, ch) == SplitFrom(s, ch, 1, <<>>)

\* str::lines(): split on the newline; a final empty part is not a line
Lines(s) ==
    LET parts == Split(s, NL)
    IN  IF parts[Len(parts)] = <<>>
        THEN SubSeq(parts, 1, Len(parts) - 1)
        ELSE parts

IsSpace(ch) == ch \in {" ", NL}

\* str::trim(): strip leading and trailing whitespace
RECURSIVE TrimStart(_)
TrimStart(s) ==
    IF s # <<>> /\ IsSpace(s[1]) THEN TrimStart(Tail(s)) ELSE s

RECURSIVE TrimEnd(_)
TrimEnd(s) ==
    IF s # <<>> /\ IsSpace(s[Len(s)])
    THEN TrimEnd(SubSeq(s, 1, Len(s) - 1))
    ELSE s

Trim(s) == TrimEnd(TrimStart(s))

\* Iterator::find on output.lines(): index of the first line that contains
\* the needle, 0 when there is none
RECURSIVE FindLineFrom(_, _)
FindLineFrom(ls, i) ==
    IF i > Len(ls) THEN 0
    ELSE IF Contains(ls[i], TagColon) THEN i
    ELSE FindLineFrom(ls, i + 1)

FindInfoLine(ls) == FindLineFrom(ls, 1)

RECURSIVE Concat(_)
Concat(ss) == IF ss = <<>> THEN <<>> ELSE Head(ss) \o Concat(Tail(ss))


\* ------------------------------------------------------------ messages ---
\* Option<SystemInfo>: <<>> is None, <<info>> is Some(info)
NoInfo == <<>>

SystemInfo(pwd, user, hostname, shell) ==
    [pwd |-> pwd, user |-> user, hostname |-> hostname, shell |-> shell]

TerminalMessage(type, data, info) ==
    [type |-> type, data |-> data, system_info |-> info]

SystemData == <<"S", "y", "s">>      \* "System info updated"

\* serde_json::to_string of a TerminalMessage: the text of a JSON object,
\* which opens with a brace and closes with a brace
ToJson(msg) == [open |-> "{", body |-> msg, close |-> "}"]

\* data.starts_with("{") && data.ends_with("}")
LooksLikeJson(data) == data.open = "{" /\ data.close = "}"

\* the shell commands the server writes by itself
ProbeCmd == <<"e", TAG, ":", "$", NL>>
CdCmd == <<"c", "d", " ", "~", NL>>

\* ----------------------------------------------------- environment inputs
\* payloads a client puts in the data field
Payloads == { <<"l">>, <<"l", NL>>, <<"a", NL, "b", NL>> }

\* what receiver.next() can yield besides None
Frames ==
    { [ws |-> "text", decodes |-> TRUE, type |-> "input", data |-> d] :
          d \in Payloads }
    \cup { [ws |-> "text", decodes |-> TRUE, type |-> "request_system_info",
            data |-> <<"l">>],
           [ws |-> "text", decodes |-> TRUE, type |-> "output",
            data |-> <<"l", NL>>],
           [ws |-> "text", decodes |-> FALSE, type |-> "", data |-> <<>>],
           [ws |-> "binary", decodes |-> FALSE, type |-> "", data |-> <<>>],
           [ws |-> "error", decodes |-> FALSE, type |-> "", data |-> <<>>] }

PlainLine == <<"x", NL>>
MarkerLine == <<TAG, ":", "p", ":", "u", ":", "h", ":", "s", NL>>
ShortMarkerLine == <<TAG, ":", "q", NL>>
MarkerHead == <<TAG, ":", "p", ":", "u">>
MarkerTail == <<":", "h", ":", "s", NL>>

\* what one stdout.read(&mut buffer) can return as data
StdoutChunks ==
    { PlainLine, MarkerLine, ShortMarkerLine, MarkerHead, MarkerTail,
      PlainLine \o MarkerLine, MarkerLine \o ShortMarkerLine }

\* what one stderr.read(&mut buffer) can return as data
StderrChunks == { <<"e", NL>>, MarkerLine }

\* --------------------------------------------------------------- state ---
VARIABLES
    sessions,       \* the registry: session id -> sender of an outbound channel
    connBudget,     \* connections the environment will still open
    hs,             \* handle_socket: "idle", "waiting" (at select!), "returned"
    sid,            \* session_id of the connection
    sock,           \* the client's socket: "none", "open", "closed"
    framesLeft,     \* frames the client may still send
    out,            \* outbound channel (tx, rx): queued items
    inq,            \* input channel (input_tx, input_rx): queued items
    outPump,        \* output_handle: "none", "recv", "cleanup", "done"
    inPump,         \* input_handle of handle_socket: "none", "recv", "done"
    shell,          \* shell_handle: "none", "start", "select", "done"
    child,          \* the bash process: "none", "running", "exited"
    stdoutPump,     \* stdout_handle: "none", "read", "done"
    stderrPump,     \* stderr_handle: "none", "read", "done"
    stdinPump,      \* input_handle of start_local_shell:
                    \*   "none", "prime_cd", "prime_probe", "recv", "settle", "done"
    stdoutLeft,     \* data chunks stdout may still deliver
    stderrLeft,     \* data chunks stderr may still deliver
    stdinLog,       \* history: what was written to the child's stdin, in order
    stdoutStream,   \* history: the chunks read from stdout, in order
    stderrStream,   \* history: the chunks read from stderr, in order
    frameLog,       \* history: what receiver.next() yielded, in order
    chanLog,        \* history: the items put on the outbound channel, in order
    clientLog,      \* history: the messages written to the client, in order
    failedWrites,   \* history: number of failed writes to the client
    unregCount      \* history: number of sessions_lock.remove calls

vars == << sessions, connBudget, hs, sid, sock, framesLeft, out, inq, outPump,
           inPump, shell, child, stdoutPump, stderrPump, stdinPump, stdoutLeft,
           stderrLeft, stdinLog, stdoutStream, stderrStream, frameLog,
           chanLog, clientLog, failedWrites, unregCount >>

NoId == 0

\* the state when the server starts; frames, outReads and errReads give, for
\* each connection, what its environment will deliver
InitPer(conns, frames, outReads, errReads) ==
    /\ sessions = << >>
    /\ connBudget = conns
    /\ hs = [c \in Conns |-> "idle"]
    /\ sid = [c \in Conns |-> NoId]
    /\ sock = [c \in Conns |-> "none"]
    /\ framesLeft = frames
    /\ out = [c \in Conns |-> << >>]
    /\ inq = [c \in Conns |-> << >>]
    /\ outPump = [c \in Conns |-> "none"]
    /\ inPump = [c \in Conns |-> "none"]
    /\ shell = [c \in Conns |-> "none"]
    /\ child = [c \in Conns |-> "none"]
    /\ stdoutPump = [c \in Conns |-> "none"]
    /\ stderrPump = [c \in Conns |-> "none"]
    /\ stdinPump = [c \in Conns |-> "none"]
    /\ stdoutLeft = outReads
    /\ stderrLeft = errReads
    /\ stdinLog = [c \in Conns |-> << >>]
    /\ stdoutStream = [c \in Conns |-> << >>]
    /\ stderrStream = [c \in Conns |-> << >>]
    /\ frameLog = [c \in Conns |-> << >>]
    /\ chanLog = [c \in Conns |-> << >>]
    /\ clientLog = [c \in Conns |-> << >>]
    /\ failedWrites = [c \in Conns |-> 0]
    /\ unregCount = [c \in Conns |-> 0]

\* the same environment for every connection
InitWith(conns, frames, outReads, errReads) ==
    InitPer(conns, [c \in Conns |-> frames], [c \in Conns |-> outReads],
            [c \in Conns |-> errReads])

\* one connection; the environment either sends client frames, or writes to
\* stdout, or writes to stdout and stderr, or sends a frame and writes to
\* stdout
Init ==
    \/ InitWith(1, MaxFrames, 0, 0)
    \/ InitWith(1, 0, MaxStdoutReads, 0)
    \/ InitWith(1, 0, 1, MaxStderrReads)
    \/ InitWith(1, 1, 1, 0)

\* the same with at most one input of each kind
InitSmall ==
    \/ InitWith(1, 1, 0, 0)
    \/ InitWith(1, 0, 1, 0)
    \/ InitWith(1, 0, 0, MaxStderrReads)

\* ------------------------------------------------------------ registry ---
\* an insert that keeps the entry that is there
RegisterKeepOld(reg, id, sink) ==
    [x \in (DOMAIN reg) \cup {id} |-> IF x \in DOMAIN reg THEN reg[x] ELSE sink]

\* HashMap::insert
Register(reg, id, sink) ==
    [x \in (DOMAIN reg) \cup {id} |-> IF x = id THEN sink ELSE reg[x]]

\* the registry loses every entry instead of one
UnregisterAll(reg, id) == << >>

\* HashMap::remove
Unregister(reg, id) == [x \in (DOMAIN reg) \ {id} |-> reg[x]]

Registered(c) == sid[c] \in DOMAIN sessions

\* ------------------------------------------------------------ channels ---
\* the senders without the clone in the registry
OutSenderAliveNoRegistry(c) ==
    \/ hs[c] = "waiting"
    \/ shell[c] \in {"start", "select"}
    \/ stdoutPump[c] = "read"
    \/ stderrPump[c] = "read"

\* some sender of the outbound channel of c is alive: tx in handle_socket,
\* the clone in the registry, shell_tx in the adapter task, output_tx_clone
\* in the stdout pump, output_tx_clone2 in the stderr pump
OutSenderAlive(c) ==
    \/ hs[c] = "waiting"
    \/ \E id \in DOMAIN sessions : sessions[id] = c
    \/ shell[c] \in {"start", "select"}
    \/ stdoutPump[c] = "read"
    \/ stderrPump[c] = "read"

\* rx lives in the outbound pump
OutReceiverAlive(c) == outPump[c] \in {"recv", "cleanup"}

\* input_tx lives in the inbound pump
InSenderAlive(c) == inPump[c] = "recv"

\* input_rx is moved into the adapter task and from there into the stdin pump
InReceiverAlive(c) ==
    \/ shell[c] = "start"
    \/ stdinPump[c] \in {"prime_cd", "prime_probe", "recv", "settle"}


\* -------------------------------------------------------- handle_socket --
\* line 40: Uuid::new_v4() returns a value that was not returned before; the
\* k-th value is called k
NewUuid == Cardinality({d \in Conns : sid[d] # NoId}) + 1

\* lines 39-111: a fresh session id, the two channels, the registry entry,
\* and the three spawned tasks; the function then waits at select!
HandleSocketStart(c) ==
    /\ hs[c] = "idle"
    /\ connBudget > 0
    /\ \A d \in Conns : d < c => hs[d] # "idle"
    /\ sid' = [sid EXCEPT ![c] = NewUuid]
    /\ sessions' = Register(sessions, NewUuid, c)
    /\ connBudget' = connBudget - 1
    /\ hs' = [hs EXCEPT ![c] = "waiting"]
    /\ sock' = [sock EXCEPT ![c] = "open"]
    /\ shell' = [shell EXCEPT ![c] = "start"]
    /\ outPump' = [outPump EXCEPT ![c] = "recv"]
    /\ inPump' = [inPump EXCEPT ![c] = "recv"]
    /\ UNCHANGED << framesLeft, out, inq, child, stdoutPump, stderrPump,
                    stdinPump, stdoutLeft, stderrLeft, stdinLog, stdoutStream,
                    stderrStream, frameLog, chanLog, clientLog, failedWrites, unregCount >>

\* lines 113-118: select! over the three JoinHandles
BridgeSelectReady(c) ==
    \/ shell[c] = "done"
    \/ outPump[c] = "done"
    \/ inPump[c] = "done"

HandleSocketReturn(c) ==
    /\ hs[c] = "waiting"
    /\ BridgeSelectReady(c)
    /\ hs' = [hs EXCEPT ![c] = "returned"]
    /\ UNCHANGED << sessions, connBudget, sid, sock, framesLeft, out, inq,
                    outPump, inPump, shell, child, stdoutPump, stderrPump,
                    stdinPump, stdoutLeft, stderrLeft, stdinLog, stdoutStream,
                    stderrStream, frameLog, chanLog, clientLog, failedWrites, unregCount >>

\* the client closes or loses the connection
ClientClose(c) ==
    /\ sock[c] = "open"
    /\ sock' = [sock EXCEPT ![c] = "closed"]
    /\ UNCHANGED << sessions, connBudget, hs, sid, framesLeft, out, inq,
                    outPump, inPump, shell, child, stdoutPump, stderrPump,
                    stdinPump, stdoutLeft, stderrLeft, stdinLog, stdoutStream,
                    stderrStream, frameLog, chanLog, clientLog, failedWrites, unregCount >>

\* ------------------------------------------------------- outbound pump ---
\* every item is wrapped
OutboundMessageWrapAll(data) == ToJson(TerminalMessage("output", data, NoInfo))

\* lines 65-83: what is handed to sender.send for a received item
OutboundMessage(data) ==
    IF LooksLikeJson(data)
    THEN data
    ELSE ToJson(TerminalMessage("output", data, NoInfo))

\* sender.send succeeds while the client's socket is open
ClientWriteOk(c) == sock[c] = "open"

\* the newest item of the queue instead of the oldest
RecvItemNewest(q) == q[Len(q)]

\* line 63: rx.recv() yields the oldest item of the queue
RecvItem(q) == Head(q)

\* a failed send does nothing but go on with the loop
AfterClientWriteKeepGoing(ok) == "recv"

\* lines 67-69 and 79-81: a failed send breaks out of the loop
AfterClientWrite(ok) == IF ok THEN "recv" ELSE "cleanup"

\* the entry is removed in the turn of the loop in which the send fails
OutPumpRecvUnregisters(c) ==
    /\ outPump[c] = "recv"
    /\ \/ /\ out[c] # << >>
          /\ out' = [out EXCEPT ![c] = Tail(@)]
          /\ outPump' = [outPump EXCEPT ![c] = AfterClientWrite(ClientWriteOk(c))]
          /\ IF ClientWriteOk(c)
             THEN /\ clientLog' = [clientLog EXCEPT
                                     ![c] = Append(@, OutboundMessage(RecvItem(out[c])))]
                  /\ UNCHANGED << failedWrites, sessions >>
             ELSE /\ failedWrites' = [failedWrites EXCEPT ![c] = @ + 1]
                  /\ sessions' = Unregister(sessions, sid[c])
                  /\ UNCHANGED clientLog
       \/ /\ out[c] = << >>
          /\ ~OutSenderAlive(c)
          /\ outPump' = [outPump EXCEPT ![c] = "cleanup"]
          /\ UNCHANGED << out, clientLog, failedWrites, sessions >>
    /\ UNCHANGED << connBudget, hs, sid, sock, framesLeft, inq,
                    inPump, shell, child, stdoutPump, stderrPump, stdinPump,
                    stdoutLeft, stderrLeft, stdinLog, stdoutStream,
                    stderrStream, frameLog, chanLog,
                    unregCount >>

\* lines 63-84: one turn of the while-let loop; a failed send breaks out of
\* the loop, and so does a closed channel (rx.recv() gives None)
OutPumpRecv(c) ==
    /\ outPump[c] = "recv"
    /\ \/ /\ out[c] # << >>
          /\ out' = [out EXCEPT ![c] = Tail(@)]
          /\ outPump' = [outPump EXCEPT ![c] = AfterClientWrite(ClientWriteOk(c))]
          /\ IF ClientWriteOk(c)
             THEN /\ clientLog' = [clientLog EXCEPT
                                     ![c] = Append(@, OutboundMessage(RecvItem(out[c])))]
                  /\ UNCHANGED failedWrites
             ELSE /\ failedWrites' = [failedWrites EXCEPT ![c] = @ + 1]
                  /\ UNCHANGED clientLog
       \/ /\ out[c] = << >>
          /\ ~OutSenderAlive(c)
          /\ outPump' = [outPump EXCEPT ![c] = "cleanup"]
          /\ UNCHANGED << out, clientLog, failedWrites >>
    /\ UNCHANGED << sessions, connBudget, hs, sid, sock, framesLeft, inq,
                    inPump, shell, child, stdoutPump, stderrPump, stdinPump,
                    stdoutLeft, stderrLeft, stdinLog, stdoutStream,
                    stderrStream, frameLog, chanLog,
                    unregCount >>

\* lines 86-89: lock the registry, remove the entry; the task ends and rx is
\* dropped together with what is still queued
OutPumpCleanup(c) ==
    /\ outPump[c] = "cleanup"
    /\ sessions' = Unregister(sessions, sid[c])
    /\ unregCount' = [unregCount EXCEPT ![c] = @ + 1]
    /\ outPump' = [outPump EXCEPT ![c] = "done"]
    /\ out' = [out EXCEPT ![c] = << >>]
    /\ UNCHANGED << connBudget, hs, sid, sock, framesLeft, inq, inPump, shell,
                    child, stdoutPump, stderrPump, stdinPump, stdoutLeft,
                    stderrLeft, stdinLog, stdoutStream,
                    stderrStream, frameLog, chanLog, clientLog,
                    failedWrites >>

\* -------------------------------------------------------- inbound pump ---
\* a request_system_info frame forwards its data
DispatchEcho(f) ==
    IF f.ws = "text" /\ f.decodes
    THEN IF f.type \in {"input", "request_system_info"} THEN << f.data >>
         ELSE << >>
    ELSE << >>

\* a text frame that does not decode is forwarded as an empty input
DispatchUndecoded(f) ==
    IF f.ws = "text"
    THEN IF f.type = "input" \/ ~f.decodes THEN << f.data >>
         ELSE IF f.type = "request_system_info" THEN << ProbeCmd >>
         ELSE << >>
    ELSE << >>

\* lines 94-108: what a frame makes the pump send on the input channel
\* (<<>> nothing, <<item>> one item)
Dispatch(f) ==
    IF f.ws = "text" /\ f.decodes
    THEN IF f.type = "input" THEN << f.data >>
         ELSE IF f.type = "request_system_info" THEN << ProbeCmd >>
         ELSE << >>
    ELSE << >>

\* lines 93-110: one frame from the client; input_tx.send fails, and the
\* failure is ignored, when input_rx is gone
InPumpFrame(c) ==
    /\ inPump[c] = "recv"
    /\ sock[c] = "open"
    /\ framesLeft[c] > 0
    /\ \E f \in Frames :
          /\ frameLog' = [frameLog EXCEPT ![c] = Append(@, f)]
          /\ inq' = [inq EXCEPT ![c] = IF InReceiverAlive(c)
                                        THEN @ \o Dispatch(f)
                                        ELSE @]
    /\ framesLeft' = [framesLeft EXCEPT ![c] = @ - 1]
    /\ UNCHANGED << sessions, connBudget, hs, sid, sock, out, outPump, inPump,
                    shell, child, stdoutPump, stderrPump, stdinPump,
                    stdoutLeft, stderrLeft, stdinLog, stdoutStream,
                    stderrStream, chanLog, clientLog, failedWrites,
                    unregCount >>

\* line 93: receiver.next() gives None, the task ends and input_tx is dropped
InPumpEnd(c) ==
    /\ inPump[c] = "recv"
    /\ sock[c] = "closed"
    /\ inPump' = [inPump EXCEPT ![c] = "done"]
    /\ UNCHANGED << sessions, connBudget, hs, sid, sock, framesLeft, out, inq,
                    outPump, shell, child, stdoutPump, stderrPump, stdinPump,
                    stdoutLeft, stderrLeft, stdinLog, stdoutStream,
                    stderrStream, frameLog, chanLog,
                    clientLog, failedWrites, unregCount >>


\* --------------------------------------------------- start_local_shell ---
\* lines 132-269: Command::spawn succeeds; the three pumps are spawned and the
\* adapter task waits at select!
SpawnOk(c) ==
    /\ shell[c] = "start"
    /\ shell' = [shell EXCEPT ![c] = "select"]
    /\ child' = [child EXCEPT ![c] = "running"]
    /\ stdoutPump' = [stdoutPump EXCEPT ![c] = "read"]
    /\ stderrPump' = [stderrPump EXCEPT ![c] = "read"]
    /\ stdinPump' = [stdinPump EXCEPT ![c] = "prime_cd"]
    /\ UNCHANGED << sessions, connBudget, hs, sid, sock, framesLeft, out, inq,
                    outPump, inPump, stdoutLeft, stderrLeft, stdinLog,
                    stdoutStream,
                    stderrStream, frameLog, chanLog, clientLog, failedWrites,
                    unregCount >>

\* the pumps are started although the spawn failed
SpawnFailStartsPumps(c) ==
    /\ shell[c] = "start"
    /\ shell' = [shell EXCEPT ![c] = "done"]
    /\ stdoutPump' = [stdoutPump EXCEPT ![c] = "read"]
    /\ stderrPump' = [stderrPump EXCEPT ![c] = "read"]
    /\ stdinPump' = [stdinPump EXCEPT ![c] = "prime_cd"]
    /\ UNCHANGED << sessions, connBudget, hs, sid, sock, framesLeft, out, inq,
                    outPump, inPump, child, stdoutLeft, stderrLeft, stdinLog,
                    stdoutStream, stderrStream, frameLog, chanLog,
                    clientLog, failedWrites, unregCount >>

\* lines 132-139 and 54-56: Command::spawn fails, `?` returns the error, the
\* adapter task prints it and ends; output_tx and input_rx are dropped
SpawnFail(c) ==
    /\ shell[c] = "start"
    /\ shell' = [shell EXCEPT ![c] = "done"]
    /\ inq' = [inq EXCEPT ![c] = << >>]
    /\ UNCHANGED << sessions, connBudget, hs, sid, sock, framesLeft, out,
                    outPump, inPump, child, stdoutPump, stderrPump, stdinPump,
                    stdoutLeft, stderrLeft, stdinLog, stdoutStream,
                    stderrStream, frameLog, chanLog,
                    clientLog, failedWrites, unregCount >>

\* a join over the four instead of a race
AdapterJoinReady(c) ==
    /\ stdoutPump[c] = "done"
    /\ stderrPump[c] = "done"
    /\ stdinPump[c] = "done"
    /\ child[c] = "exited"

\* lines 271-277: select! over the three pumps and child.wait()
AdapterSelectReady(c) ==
    \/ stdoutPump[c] = "done"
    \/ stderrPump[c] = "done"
    \/ stdinPump[c] = "done"
    \/ child[c] = "exited"

\* the adapter starts over when the select! returns
AdapterReturnRetries(c) ==
    /\ shell[c] = "select"
    /\ AdapterSelectReady(c)
    /\ shell' = [shell EXCEPT ![c] = "start"]
    /\ child' = [child EXCEPT ![c] = "none"]
    /\ UNCHANGED << sessions, connBudget, hs, sid, sock, framesLeft, out, inq,
                    outPump, inPump, stdoutPump, stderrPump, stdinPump,
                    stdoutLeft, stderrLeft, stdinLog, stdoutStream,
                    stderrStream, frameLog, chanLog,
                    clientLog, failedWrites, unregCount >>

\* lines 271-279: the select! returns, start_local_shell returns Ok(()) and
\* the adapter task ends (the Child handle is dropped, the process is not
\* killed)
AdapterReturn(c) ==
    /\ shell[c] = "select"
    /\ AdapterSelectReady(c)
    /\ shell' = [shell EXCEPT ![c] = "done"]
    /\ UNCHANGED << sessions, connBudget, hs, sid, sock, framesLeft, out, inq,
                    outPump, inPump, child, stdoutPump, stderrPump, stdinPump,
                    stdoutLeft, stderrLeft, stdinLog, stdoutStream,
                    stderrStream, frameLog, chanLog,
                    clientLog, failedWrites, unregCount >>

\* the bash process exits (killed, `exit`, or end of file on its stdin)
ChildExit(c) ==
    /\ child[c] = "running"
    /\ child' = [child EXCEPT ![c] = "exited"]
    /\ UNCHANGED << sessions, connBudget, hs, sid, sock, framesLeft, out, inq,
                    outPump, inPump, shell, stdoutPump, stderrPump, stdinPump,
                    stdoutLeft, stderrLeft, stdinLog, stdoutStream,
                    stderrStream, frameLog, chanLog,
                    clientLog, failedWrites, unregCount >>

\* ---------------------------------------------------------- stdout pump --
\* the last line with the marker is taken instead of the first
ParseSystemInfoLastLine(output) ==
    IF ~Contains(output, TagColon) THEN << >>
    ELSE LET ls == Lines(output)
             tagged == {j \in 1..Len(ls) : Contains(ls[j], TagColon)}
             i == IF tagged = {} THEN 0
                  ELSE CHOOSE j \in tagged : \A k \in tagged : k <= j
         IN  IF i = 0 THEN << >>
             ELSE LET parts == Split(ls[i], ":")
                  IN  IF Len(parts) >= 5
                      THEN << SystemInfo(Trim(parts[2]), Trim(parts[3]),
                                         Trim(parts[4]), Trim(parts[5])) >>
                      ELSE << >>

\* lines 158-168: the SystemInfo taken from a chunk, <<>> when the chunk has
\* no marker or the first line with the marker has fewer than five parts
ParseSystemInfo(output) ==
    IF ~Contains(output, TagColon) THEN << >>
    ELSE LET ls == Lines(output)
             i == FindInfoLine(ls)
         IN  IF i = 0 THEN << >>
             ELSE LET parts == Split(ls[i], ":")
                  IN  IF Len(parts) >= 5
                      THEN << SystemInfo(Trim(parts[2]), Trim(parts[3]),
                                         Trim(parts[4]), Trim(parts[5])) >>
                      ELSE << >>

\* lines 158-191: the one message built from a chunk
StdoutMessage(output) ==
    LET info == ParseSystemInfo(output)
    IN  IF info # << >>
        THEN TerminalMessage("system", SystemData, info)
        ELSE TerminalMessage("output", output, NoInfo)

\* output_tx.send succeeds while rx is alive
ChannelSendOk(c) == OutReceiverAlive(c)

\* lines 151-198, the Ok(n) arm: a chunk is read and one message is sent; a
\* failed send of an output message breaks the loop, a failed send of a
\* system message is ignored
StdoutData(c) ==
    /\ stdoutPump[c] = "read"
    /\ stdoutLeft[c] > 0
    /\ \E output \in StdoutChunks :
          LET msg == StdoutMessage(output)
              item == ToJson(msg)
          IN  /\ stdoutStream' = [stdoutStream EXCEPT ![c] = Append(@, output)]
              /\ IF ChannelSendOk(c)
                 THEN /\ out' = [out EXCEPT ![c] = Append(@, item)]
                      /\ chanLog' = [chanLog EXCEPT
                             ![c] = Append(@, [src |-> "stdout", item |-> item])]
                      /\ UNCHANGED stdoutPump
                 ELSE /\ stdoutPump' = [stdoutPump EXCEPT
                             ![c] = IF msg.type = "system" THEN "read" ELSE "done"]
                      /\ UNCHANGED << out, chanLog >>
    /\ stdoutLeft' = [stdoutLeft EXCEPT ![c] = @ - 1]
    /\ UNCHANGED << sessions, connBudget, hs, sid, sock, framesLeft, inq,
                    outPump, inPump, shell, child, stderrPump, stdinPump,
                    stderrLeft, stdinLog, stderrStream, frameLog, clientLog,
                    failedWrites, unregCount >>

\* the end of stdout stops the stderr pump too
StdoutEofStopsStderr(c) ==
    /\ stdoutPump[c] = "read"
    /\ child[c] = "exited"
    /\ stdoutPump' = [stdoutPump EXCEPT ![c] = "done"]
    /\ stderrPump' = [stderrPump EXCEPT ![c] = "done"]
    /\ UNCHANGED << sessions, connBudget, hs, sid, sock, framesLeft, out, inq,
                    outPump, inPump, shell, child, stdinPump,
                    stdoutLeft, stderrLeft, stdinLog, stdoutStream,
                    stderrStream, frameLog, chanLog,
                    clientLog, failedWrites, unregCount >>

\* line 152: Ok(0), end of file once the child has exited
StdoutEof(c) ==
    /\ stdoutPump[c] = "read"
    /\ child[c] = "exited"
    /\ stdoutPump' = [stdoutPump EXCEPT ![c] = "done"]
    /\ UNCHANGED << sessions, connBudget, hs, sid, sock, framesLeft, out, inq,
                    outPump, inPump, shell, child, stderrPump, stdinPump,
                    stdoutLeft, stderrLeft, stdinLog, stdoutStream,
                    stderrStream, frameLog, chanLog,
                    clientLog, failedWrites, unregCount >>

\* line 199: Err(_), a read error at any time
StdoutErr(c) ==
    /\ stdoutPump[c] = "read"
    /\ stdoutPump' = [stdoutPump EXCEPT ![c] = "done"]
    /\ UNCHANGED << sessions, connBudget, hs, sid, sock, framesLeft, out, inq,
                    outPump, inPump, shell, child, stderrPump, stdinPump,
                    stdoutLeft, stderrLeft, stdinLog, stdoutStream,
                    stderrStream, frameLog, chanLog,
                    clientLog, failedWrites, unregCount >>

\* ---------------------------------------------------------- stderr pump --
\* the marker is looked for on stderr as it is on stdout
StderrMessageParsed(output) == StdoutMessage(output)

\* a system message without a system_info
StderrMessageAsSystem(output) == TerminalMessage("system", output, NoInfo)

\* lines 217-222: the one message built from a chunk
StderrMessage(output) == TerminalMessage("output", output, NoInfo)

\* lines 210-229, the Ok(n) arm
StderrData(c) ==
    /\ stderrPump[c] = "read"
    /\ stderrLeft[c] > 0
    /\ \E output \in StderrChunks :
          LET item == ToJson(StderrMessage(output))
          IN  /\ stderrStream' = [stderrStream EXCEPT ![c] = Append(@, output)]
              /\ IF ChannelSendOk(c)
                 THEN /\ out' = [out EXCEPT ![c] = Append(@, item)]
                      /\ chanLog' = [chanLog EXCEPT
                             ![c] = Append(@, [src |-> "stderr", item |-> item])]
                      /\ UNCHANGED stderrPump
                 ELSE /\ stderrPump' = [stderrPump EXCEPT ![c] = "done"]
                      /\ UNCHANGED << out, chanLog >>
    /\ stderrLeft' = [stderrLeft EXCEPT ![c] = @ - 1]
    /\ UNCHANGED << sessions, connBudget, hs, sid, sock, framesLeft, inq,
                    outPump, inPump, shell, child, stdoutPump, stdinPump,
                    stdoutLeft, stdinLog, stdoutStream, frameLog, clientLog,
                    failedWrites, unregCount >>

\* line 211: Ok(0), end of file once the child has exited
StderrEof(c) ==
    /\ stderrPump[c] = "read"
    /\ child[c] = "exited"
    /\ stderrPump' = [stderrPump EXCEPT ![c] = "done"]
    /\ UNCHANGED << sessions, connBudget, hs, sid, sock, framesLeft, out, inq,
                    outPump, inPump, shell, child, stdoutPump, stdinPump,
                    stdoutLeft, stderrLeft, stdinLog, stdoutStream,
                    stderrStream, frameLog, chanLog,
                    clientLog, failedWrites, unregCount >>

\* line 230: Err(_), a read error at any time
StderrErr(c) ==
    /\ stderrPump[c] = "read"
    /\ stderrPump' = [stderrPump EXCEPT ![c] = "done"]
    /\ UNCHANGED << sessions, connBudget, hs, sid, sock, framesLeft, out, inq,
                    outPump, inPump, shell, child, stdoutPump, stdinPump,
                    stdoutLeft, stderrLeft, stdinLog, stdoutStream,
                    stderrStream, frameLog, chanLog,
                    clientLog, failedWrites, unregCount >>


\* ----------------------------------------------------------- stdin pump --
\* stdin.write_all succeeds while the child holds the read end of the pipe;
\* stdin.flush on a pipe does nothing and succeeds
StdinWriteOk(c) == child[c] = "running"

WriteAttempt(src, text, ok) == [src |-> src, text |-> text, ok |-> ok]

\* no probe after any item
NeedsProbeNever(input) == FALSE

\* a probe after every item
NeedsProbeAlways(input) == TRUE

\* line 258: input.contains('\n')
NeedsProbe(input) == ContainsChar(input, NL)

\* the priming probe left out
AfterCdNoProbe(ok) == "recv"

\* lines 240-246: the probe is written only when the cd write succeeded
AfterCd(ok) == IF ok THEN "prime_probe" ELSE "recv"

\* lines 239-241: after the first sleep, write "cd <home>"; the probe follows
\* only when this write succeeded
StdinPrimeCd(c) ==
    /\ stdinPump[c] = "prime_cd"
    /\ stdinLog' = [stdinLog EXCEPT
           ![c] = Append(@, WriteAttempt("prime_cd", CdCmd, StdinWriteOk(c)))]
    /\ stdinPump' = [stdinPump EXCEPT ![c] = AfterCd(StdinWriteOk(c))]
    /\ UNCHANGED << sessions, connBudget, hs, sid, sock, framesLeft, out, inq,
                    outPump, inPump, shell, child, stdoutPump, stderrPump,
                    stdoutLeft, stderrLeft, stdoutStream,
                    stderrStream, frameLog, chanLog, clientLog,
                    failedWrites, unregCount >>

\* lines 242-245: after the second sleep, write the probe; its result is
\* ignored
StdinPrimeProbe(c) ==
    /\ stdinPump[c] = "prime_probe"
    /\ stdinLog' = [stdinLog EXCEPT
           ![c] = Append(@, WriteAttempt("prime_probe", ProbeCmd, StdinWriteOk(c)))]
    /\ stdinPump' = [stdinPump EXCEPT ![c] = "recv"]
    /\ UNCHANGED << sessions, connBudget, hs, sid, sock, framesLeft, out, inq,
                    outPump, inPump, shell, child, stdoutPump, stderrPump,
                    stdoutLeft, stderrLeft, stdoutStream,
                    stderrStream, frameLog, chanLog, clientLog,
                    failedWrites, unregCount >>

\* the newest item of the input channel is taken instead of the oldest
StdinRecvNewest(c) ==
    /\ stdinPump[c] = "recv"
    /\ \/ /\ inq[c] # << >>
          /\ LET input == inq[c][Len(inq[c])]
             IN  /\ stdinLog' = [stdinLog EXCEPT
                        ![c] = Append(@, WriteAttempt("client", input, StdinWriteOk(c)))]
                 /\ IF StdinWriteOk(c)
                    THEN /\ inq' = [inq EXCEPT ![c] = SubSeq(@, 1, Len(@) - 1)]
                         /\ stdinPump' = [stdinPump EXCEPT
                                ![c] = IF NeedsProbe(input) THEN "settle" ELSE "recv"]
                    ELSE /\ inq' = [inq EXCEPT ![c] = << >>]
                         /\ stdinPump' = [stdinPump EXCEPT ![c] = "done"]
       \/ /\ inq[c] = << >>
          /\ ~InSenderAlive(c)
          /\ stdinPump' = [stdinPump EXCEPT ![c] = "done"]
          /\ UNCHANGED << inq, stdinLog >>
    /\ UNCHANGED << sessions, connBudget, hs, sid, sock, framesLeft, out,
                    outPump, inPump, shell, child, stdoutPump, stderrPump,
                    stdoutLeft, stderrLeft, stdoutStream,
                    stderrStream, frameLog, chanLog, clientLog,
                    failedWrites, unregCount >>

\* lines 248-258: one item of the input channel is written; a failed write
\* breaks the loop (stdin and input_rx are dropped); None ends the loop
StdinRecv(c) ==
    /\ stdinPump[c] = "recv"
    /\ \/ /\ inq[c] # << >>
          /\ LET input == Head(inq[c])
             IN  /\ stdinLog' = [stdinLog EXCEPT
                        ![c] = Append(@, WriteAttempt("client", input, StdinWriteOk(c)))]
                 /\ IF StdinWriteOk(c)
                    THEN /\ inq' = [inq EXCEPT ![c] = Tail(@)]
                         /\ stdinPump' = [stdinPump EXCEPT
                                ![c] = IF NeedsProbe(input) THEN "settle" ELSE "recv"]
                    ELSE /\ inq' = [inq EXCEPT ![c] = << >>]
                         /\ stdinPump' = [stdinPump EXCEPT ![c] = "done"]
       \/ /\ inq[c] = << >>
          /\ ~InSenderAlive(c)
          /\ stdinPump' = [stdinPump EXCEPT ![c] = "done"]
          /\ UNCHANGED << inq, stdinLog >>
    /\ UNCHANGED << sessions, connBudget, hs, sid, sock, framesLeft, out,
                    outPump, inPump, shell, child, stdoutPump, stderrPump,
                    stdoutLeft, stderrLeft, stdoutStream,
                    stderrStream, frameLog, chanLog, clientLog,
                    failedWrites, unregCount >>

\* lines 259-266: after the settle delay, write the follow-up probe; a failed
\* write breaks the loop
StdinFollowUp(c) ==
    /\ stdinPump[c] = "settle"
    /\ stdinLog' = [stdinLog EXCEPT
           ![c] = Append(@, WriteAttempt("follow", ProbeCmd, StdinWriteOk(c)))]
    /\ IF StdinWriteOk(c)
       THEN /\ stdinPump' = [stdinPump EXCEPT ![c] = "recv"]
            /\ UNCHANGED inq
       ELSE /\ stdinPump' = [stdinPump EXCEPT ![c] = "done"]
            /\ inq' = [inq EXCEPT ![c] = << >>]
    /\ UNCHANGED << sessions, connBudget, hs, sid, sock, framesLeft, out,
                    outPump, inPump, shell, child, stdoutPump, stderrPump,
                    stdoutLeft, stderrLeft, stdoutStream,
                    stderrStream, frameLog, chanLog, clientLog,
                    failedWrites, unregCount >>

\* ------------------------------------------------------- specification ---
Next ==
    \E c \in Conns :
        \/ HandleSocketStart(c)
        \/ HandleSocketReturn(c)
        \/ ClientClose(c)
        \/ OutPumpRecv(c)
        \/ OutPumpCleanup(c)
        \/ InPumpFrame(c)
        \/ InPumpEnd(c)
        \/ SpawnOk(c)
        \/ SpawnFail(c)
        \/ AdapterReturn(c)
        \/ ChildExit(c)
        \/ StdoutData(c)
        \/ StdoutEof(c)
        \/ StdoutErr(c)
        \/ StderrData(c)
        \/ StderrEof(c)
        \/ StderrErr(c)
        \/ StdinPrimeCd(c)
        \/ StdinPrimeProbe(c)
        \/ StdinRecv(c)
        \/ StdinFollowUp(c)

Spec == Init /\ [][Next]_vars

\* the tokio scheduler runs every task that can take a step
TaskFairness ==
    \A c \in Conns :
        /\ WF_vars(HandleSocketReturn(c))
        /\ WF_vars(OutPumpRecv(c))
        /\ WF_vars(OutPumpCleanup(c))
        /\ WF_vars(InPumpEnd(c))
        /\ WF_vars(SpawnOk(c) \/ SpawnFail(c))
        /\ WF_vars(AdapterReturn(c))
        /\ WF_vars(StdoutEof(c))
        /\ WF_vars(StderrEof(c))
        /\ WF_vars(StdinPrimeCd(c))
        /\ WF_vars(StdinPrimeProbe(c))
        /\ WF_vars(StdinRecv(c))
        /\ WF_vars(StdinFollowUp(c))

\* the client disconnects in the end and the child exits in the end
EnvFairness ==
    \A c \in Conns :
        /\ WF_vars(ClientClose(c))
        /\ WF_vars(ChildExit(c))

FairSpec == InitSmall /\ [][Next]_vars /\ TaskFairness

FairEnvSpec == InitSmall /\ [][Next]_vars /\ TaskFairness /\ EnvFairness

\* ================================================================ claims ==

\* C1: when handle_socket returns, whichever of the three bridge tasks
\* completed first, the registry has no entry for the session's id.
C1_NoEntryWhenBridgeReturns ==
    \A c \in Conns : hs[c] = "returned" => ~Registered(c)

\* C2: every registry entry is removed in the end, on every path, and the
\* removal is performed at most once per session.
C2_RemovedExactlyOnce ==
    \A c \in Conns :
        /\ Registered(c) ~> ~Registered(c)
        /\ [](unregCount[c] <= 1)

\* C3: a failed write to the client sends the outbound pump to its cleanup,
\* the pump's next step removes the session's registry entry, and no write
\* to the client is attempted after the failed one.
C3_WriteFailureEndsPump ==
    [][\A c \in Conns :
          /\ failedWrites'[c] > failedWrites[c] => outPump'[c] = "cleanup"
          /\ failedWrites[c] > 0 =>
                /\ clientLog'[c] = clientLog[c]
                /\ failedWrites'[c] = failedWrites[c]
                /\ outPump[c] \in {"cleanup", "done"}
                /\ outPump'[c] # outPump[c] =>
                      /\ outPump'[c] = "done"
                      /\ sid[c] \notin DOMAIN sessions']_vars

\* a write failed, the entry is gone, and the stdout pump can still produce
C3_Witness ==
    \E c \in Conns :
        /\ failedWrites[c] = 1
        /\ outPump[c] = "done"
        /\ ~Registered(c)
        /\ stdoutPump[c] = "read"
        /\ stdoutLeft[c] > 0

AdapterTaskFinished(c) ==
    \/ stdoutPump[c] = "done"
    \/ stderrPump[c] = "done"
    \/ stdinPump[c] = "done"
    \/ child[c] = "exited"

SessionTaskFinished(c) ==
    \/ AdapterTaskFinished(c)
    \/ outPump[c] = "done"
    \/ inPump[c] = "done"

\* C4: once any of the six session tasks has finished, the adapter's wait
\* returns if it was one of the adapter's four, and handle_socket returns.
C4_AnyTaskEndsSession ==
    \A c \in Conns :
        /\ AdapterTaskFinished(c) ~> shell[c] = "done"
        /\ SessionTaskFinished(c) ~> hs[c] = "returned"

\* handle_socket has returned because the stdout pump finished, while both
\* bridge pumps, the child and the other adapter pumps are still there
C4_Witness ==
    \E c \in Conns :
        /\ hs[c] = "returned"
        /\ stdoutPump[c] = "done"
        /\ child[c] = "running"
        /\ stderrPump[c] = "read"
        /\ stdinPump[c] # "done"
        /\ outPump[c] = "recv"
        /\ inPump[c] = "recv"

AllTasksEnded(c) ==
    /\ shell[c] = "done"
    /\ outPump[c] = "done"
    /\ inPump[c] = "done"
    /\ stdoutPump[c] \in {"none", "done"}
    /\ stderrPump[c] \in {"none", "done"}
    /\ stdinPump[c] \in {"none", "done"}

\* C5: after handle_socket has returned, every task of the session ends.
C5_SiblingsTerminate ==
    \A c \in Conns : hs[c] = "returned" ~> AllTasksEnded(c)


PastPriming(c) == stdinPump[c] \in {"recv", "settle", "done"}

\* what reached the child's stdin: the writes that succeeded, in order
Written(c) == SelectSeq(stdinLog[c], LAMBDA e : e.ok)

\* C6: once the stdin pump is past its priming, the child's stdin has
\* received "cd <home>" and then one probe, whatever happened, and every
\* item of the input channel comes after them.
C6_PrimingAlwaysWritten ==
    \A c \in Conns :
        LET w == Written(c)
        IN  /\ PastPriming(c) =>
                  /\ Len(w) >= 2
                  /\ w[1] = WriteAttempt("prime_cd", CdCmd, TRUE)
                  /\ w[2] = WriteAttempt("prime_probe", ProbeCmd, TRUE)
            /\ \A i \in 1..Len(w) :
                  /\ w[i].src = "client" => i > 2
                  /\ w[i].src = "prime_probe" => i = 2

\* C6 as amended: the pump first attempts the cd write; the probe write is
\* attempted next exactly when the cd write succeeded, and is skipped when it
\* failed; nothing from the input channel is written before the priming
\* attempts are over, and there is at most one priming probe.
C6_PrimingBeforeInput ==
    \A c \in Conns :
        LET log == stdinLog[c]
            primed == IF Len(log) >= 1 /\ log[1].ok THEN 2 ELSE 1
        IN  /\ PastPriming(c) =>
                  /\ Len(log) >= primed
                  /\ log[1].src = "prime_cd" /\ log[1].text = CdCmd
                  /\ log[1].ok => log[2].src = "prime_probe" /\ log[2].text = ProbeCmd
            /\ stdinPump[c] = "prime_cd" => log = << >>
            /\ stdinPump[c] = "prime_probe" =>
                  log = << WriteAttempt("prime_cd", CdCmd, TRUE) >>
            /\ \A i \in 1..Len(log) :
                  /\ log[i].src \in {"client", "follow"} => i > primed
                  /\ log[i].src = "prime_cd" => i = 1
                  /\ log[i].src = "prime_probe" => i = 2 /\ log[1].ok

\* cd, the probe and then an item of the input channel have been written
C6_Witness ==
    \E c \in Conns :
        /\ Len(stdinLog[c]) >= 3
        /\ stdinLog[c][1].ok
        /\ stdinLog[c][2].ok
        /\ stdinLog[c][3].src = "client"
        /\ stdinLog[c][3].ok

\* C7: every item taken from the input channel that contains a newline has
\* exactly one follow-up probe written after it, and an item without a
\* newline has none.
C7_ProbeAfterEveryNewlineItem ==
    \A c \in Conns :
        LET log == stdinLog[c]
        IN  \A i \in 1..Len(log) :
               /\ (log[i].src = "client" /\ ContainsChar(log[i].text, NL)) =>
                     \/ i = Len(log) /\ stdinPump[c] = "settle"
                     \/ /\ i < Len(log)
                        /\ log[i + 1] = WriteAttempt("follow", ProbeCmd, TRUE)
               /\ (log[i].src = "client" /\ ~ContainsChar(log[i].text, NL)) =>
                     (i < Len(log) => log[i + 1].src # "follow")
               /\ log[i].src = "follow" =>
                     /\ i > 1
                     /\ log[i - 1].src = "client"
                     /\ ContainsChar(log[i - 1].text, NL)

\* C7 as amended: every item that was written to the child's stdin and
\* contains a newline is followed by exactly one attempt to write the probe
\* (which fails, and ends the pump, when the child is gone); an item without
\* a newline is followed by none; an item whose own write failed ends the
\* pump and has no probe.
C7_ProbeAfterWrittenNewlineItem ==
    \A c \in Conns :
        LET log == stdinLog[c]
        IN  \A i \in 1..Len(log) :
               /\ (log[i].src = "client" /\ log[i].ok /\ ContainsChar(log[i].text, NL)) =>
                     \/ i = Len(log) /\ stdinPump[c] = "settle"
                     \/ /\ i < Len(log)
                        /\ log[i + 1].src = "follow"
                        /\ log[i + 1].text = ProbeCmd
               /\ (log[i].src = "client" /\ ~ContainsChar(log[i].text, NL)) =>
                     (i < Len(log) => log[i + 1].src # "follow")
               /\ log[i].src = "follow" =>
                     /\ i > 1
                     /\ log[i - 1].src = "client"
                     /\ log[i - 1].ok
                     /\ ContainsChar(log[i - 1].text, NL)
               /\ (log[i].src \in {"client", "follow"} /\ ~log[i].ok) =>
                     /\ i = Len(log)
                     /\ stdinPump[c] = "done"

\* an item with two newlines got one probe, and the next item, which has no
\* newline, was written right after that probe
C7_Witness ==
    \E c \in Conns :
        \E i \in 1..Len(stdinLog[c]) :
            /\ i + 2 <= Len(stdinLog[c])
            /\ stdinLog[c][i] = WriteAttempt("client", <<"a", NL, "b", NL>>, TRUE)
            /\ stdinLog[c][i + 1] = WriteAttempt("follow", ProbeCmd, TRUE)
            /\ stdinLog[c][i + 2] = WriteAttempt("client", <<"l">>, TRUE)
            /\ stdinPump[c] = "recv"


\* the messages the stdout pump put on the outbound channel, in order
StdoutItems(c) ==
    LET es == SelectSeq(chanLog[c], LAMBDA e : e.src = "stdout")
    IN  [k \in 1..Len(es) |-> es[k].item.body]

\* every chunk read so far was answered by one message on the channel
AllSent(c) == Len(StdoutItems(c)) = Len(stdoutStream[c])

\* the lines of a text that are ended by a newline
CompleteLines(text) ==
    LET parts == Split(text, NL)
    IN  SubSeq(parts, 1, Len(parts) - 1)

\* TAG:path:user:host:shell
IsMarkerLine(l) ==
    LET parts == Split(l, ":")
    IN  Len(parts) = 5 /\ parts[1] = << TAG >>

\* what follows the first "TAG:" of a line that has one
AfterTag(l) ==
    LET i == CHOOSE i \in 1..(Len(l) - 1) :
                 /\ SubSeq(l, i, i + 1) = TagColon
                 /\ \A j \in 1..(i - 1) : SubSeq(l, j, j + 1) # TagColon
    IN  SubSeq(l, i + 2, Len(l))

\* the tag with fewer than four fields after it
IsShortMarkerLine(l) ==
    /\ Contains(l, TagColon)
    /\ Len(Split(AfterTag(l), ":")) < 4

\* C8: every line TAG:path:user:host:shell of the stdout stream, wherever the
\* reads cut the stream, is answered by a system envelope with pwd = path,
\* user = user, hostname = host, shell = shell, and its text is in no output
\* envelope.
C8_MarkerLineBecomesSystem ==
    \A c \in Conns :
        AllSent(c) =>
            LET ls == CompleteLines(Concat(stdoutStream[c]))
                items == StdoutItems(c)
            IN  \A i \in 1..Len(ls) :
                    IsMarkerLine(ls[i]) =>
                        LET parts == Split(ls[i], ":")
                        IN  /\ \E k \in 1..Len(items) :
                                  /\ items[k].type = "system"
                                  /\ items[k].system_info =
                                        << SystemInfo(parts[2], parts[3],
                                                      parts[4], parts[5]) >>
                            /\ \A k \in 1..Len(items) :
                                  items[k].type = "output" =>
                                      ~Contains(items[k].data, ls[i])

\* C9: a line of a chunk that has the tag and fewer than four fields after
\* it is forwarded as output text: the message for its chunk is an output
\* envelope that contains the line.
C9_ShortMarkerForwarded ==
    \A c \in Conns :
        AllSent(c) =>
            LET items == StdoutItems(c)
            IN  \A k \in 1..Len(stdoutStream[c]) :
                    LET ls == Lines(stdoutStream[c][k])
                    IN  \A i \in 1..Len(ls) :
                            IsShortMarkerLine(ls[i]) =>
                                /\ items[k].type = "output"
                                /\ Contains(items[k].data, ls[i])

\* C10: every line of a chunk that does not have the tag is in some output
\* envelope put on the outbound channel.
C10_PlainTextDelivered ==
    \A c \in Conns :
        AllSent(c) =>
            LET items == StdoutItems(c)
            IN  \A k \in 1..Len(stdoutStream[c]) :
                    LET ls == Lines(stdoutStream[c][k])
                    IN  \A i \in 1..Len(ls) :
                            ~Contains(ls[i], TagColon) =>
                                \E j \in 1..Len(items) :
                                    /\ items[j].type = "output"
                                    /\ Contains(items[j].data, ls[i])


\* the command line <<"l", NL>> and its follow-up probe reached the child
CommandAndProbeWritten(c) ==
    \E i \in 1..(Len(stdinLog[c]) - 1) :
        /\ stdinLog[c][i] = WriteAttempt("client", <<"l", NL>>, TRUE)
        /\ stdinLog[c][i + 1] = WriteAttempt("follow", ProbeCmd, TRUE)

\* everything the pumps put on the outbound channel was written to the
\* client, and the client is still there
AllDelivered(c) ==
    /\ sock[c] = "open"
    /\ outPump[c] = "recv"
    /\ failedWrites[c] = 0
    /\ out[c] = << >>
    /\ Len(clientLog[c]) = Len(chanLog[c])

\* one connection whose client sends a frame and whose child writes to
\* stdout, or whose child writes to stderr
InitEcho ==
    \/ InitWith(1, 1, 1, 0)
    \/ InitWith(1, 0, 0, MaxStderrReads)

FairEchoSpec == InitEcho /\ [][Next]_vars /\ TaskFairness

\* C11: once the client's command line (<<"l", NL>>, for "echo hi\n") and
\* its probe are written to the child and nothing is read from stdout yet:
\* when the child's answer, the command's output (PlainLine, for "hi\n") and
\* the marker line with the unchanged directory p, has been read, in whatever
\* chunks, and everything is delivered, the client has got an output envelope
\* with the command's output and, after it, a system envelope with pwd = p.
C11_OutputThenSystemInfo ==
    \A c \in Conns :
        []( ( CommandAndProbeWritten(c) /\ stdoutStream[c] = << >> ) =>
            []( ( /\ Concat(stdoutStream[c]) = PlainLine \o MarkerLine
                  /\ AllSent(c)
                  /\ AllDelivered(c) ) =>
                \E i, j \in 1..Len(clientLog[c]) :
                    /\ i < j
                    /\ clientLog[c][i].body.type = "output"
                    /\ Contains(clientLog[c][i].body.data, << "x" >>)
                    /\ clientLog[c][j].body.type = "system"
                    /\ clientLog[c][j].body.system_info # << >>
                    /\ clientLog[c][j].body.system_info[1].pwd = << "p" >> ) )

\* ------------------------------------------------------------------ C12 --
\* the number of items of source src among the first k items put on the
\* outbound channel of c
SentFrom(c, src, k) == Cardinality({i \in 1..k : chanLog[c][i].src = src})

\* what was read from the stream of source src
StreamOf(c, src) == IF src = "stdout" THEN stdoutStream[c] ELSE stderrStream[c]

\* the envelope env is made from the chunk: an output envelope with the
\* chunk as its text or, for stdout, a system envelope whose four fields are
\* fields two to five of a marker line of the chunk
DerivesFrom(env, chunk, src) ==
    \/ /\ env.body.type = "output"
       /\ env.body.data = chunk
    \/ /\ src = "stdout"
       /\ env.body.type = "system"
       /\ env.body.system_info # << >>
       /\ \E i \in 1..Len(Lines(chunk)) :
             LET parts == Split(Lines(chunk)[i], ":")
             IN  /\ Contains(Lines(chunk)[i], TagColon)
                 /\ Len(parts) >= 5
                 /\ env.body.system_info[1].pwd = Trim(parts[2])
                 /\ env.body.system_info[1].user = Trim(parts[3])
                 /\ env.body.system_info[1].hostname = Trim(parts[4])
                 /\ env.body.system_info[1].shell = Trim(parts[5])

MultiInit ==
    \/ InitPer(2, [c \in Conns |-> 0], [c \in Conns |-> 0],
               [c \in Conns |-> IF c = 1 THEN 1 ELSE 0])
    \/ InitSmall

MultiSpec == MultiInit /\ [][Next]_vars

\* the session of c is active: handle_socket is between registering and the
\* completion of the first of its three tasks
Active(c) == hs[c] = "waiting" /\ ~BridgeSelectReady(c)

\* C13: with several sessions at once, the session ids are pairwise distinct,
\* the registry maps the id of every active session to that session's sink
\* (one sink per id), and an unregister of one session leaves the entry of
\* every other id as it was.
C13_SessionsIndependent ==
    /\ [](\A c, d \in Conns :
             (c # d /\ sid[c] # NoId /\ sid[d] # NoId) => sid[c] # sid[d])
    /\ [](\A c \in Conns :
             Active(c) => (Registered(c) /\ sessions[sid[c]] = c))
    /\ [][\A c \in Conns :
             unregCount'[c] > unregCount[c] =>
                 \A id \in (DOMAIN sessions) \ {sid[c]} :
                     /\ id \in DOMAIN sessions'
                     /\ sessions'[id] = sessions[id]]_vars

\* one session has unregistered while another one is active and registered
C13_Witness ==
    \E c, d \in Conns :
        /\ c # d
        /\ unregCount[c] = 1
        /\ ~Registered(c)
        /\ Active(d)
        /\ Registered(d)
        /\ sessions[sid[d]] = d

\* ------------------------------------------------------------------ C14 --
\* C14: every message written to the client is a complete envelope of type
\* output or system (never input or request_system_info); a system envelope
\* carries a system_info object and an output envelope carries none.
C14_OnlyOutputAndSystem ==
    \A c \in Conns :
        \A k \in 1..Len(clientLog[c]) :
            LET m == clientLog[c][k]
            IN  /\ DOMAIN m = {"open", "body", "close"}
                /\ m.open = "{"
                /\ m.close = "}"
                /\ DOMAIN m.body = {"type", "data", "system_info"}
                /\ m.body.type \in {"output", "system"}
                /\ m.body.type = "system" <=> m.body.system_info # << >>
                /\ m.body.system_info # << >> =>
                       /\ Len(m.body.system_info) = 1
                       /\ DOMAIN m.body.system_info[1] =
                              {"pwd", "user", "hostname", "shell"}

\* the client has got an envelope of each of the two types
C14_Witness ==
    \E c \in Conns :
        \E i, j \in 1..Len(clientLog[c]) :
            /\ clientLog[c][i].body.type = "system"
            /\ clientLog[c][i].body.system_info # << >>
            /\ clientLog[c][j].body.type = "output"
            /\ clientLog[c][j].body.system_info = << >>

\* ------------------------------------------------------------------ C15 --
\* C15: on every registry the program reaches, register(id, sink) leaves id
\* mapped to exactly the given sink, whatever was there before, and doing it
\* twice equals doing it once; unregister(id) removes the entry of id when
\* there is one and changes nothing when there is none; neither changes the
\* entry of another id.
C15_RegistryOperations ==
    \A id \in Ids, sink \in Conns :
        LET reg == Register(sessions, id, sink)
            unreg == Unregister(sessions, id)
        IN  /\ DOMAIN reg = (DOMAIN sessions) \cup {id}
            /\ reg[id] = sink
            /\ Register(reg, id, sink) = reg
            /\ \A x \in (DOMAIN sessions) \ {id} : reg[x] = sessions[x]
            /\ DOMAIN unreg = (DOMAIN sessions) \ {id}
            /\ id \notin DOMAIN sessions => unreg = sessions
            /\ \A x \in (DOMAIN sessions) \ {id} : unreg[x] = sessions[x]
            /\ Unregister(unreg, id) = unreg

\* both operations have acted: two sessions registered, the first of them
\* has unregistered, the entry of the second is there
C15_Witness ==
    /\ DOMAIN sessions = {2}
    /\ sessions[2] = 2
    /\ unregCount[1] = 1
    /\ sid[1] = 1

\* ------------------------------------------------------------------ C16 --
\* the frame the inbound pump has taken in this step
FrameTaken(c) == frameLog'[c][Len(frameLog'[c])]

\* the frame is a text frame whose text decodes as a TerminalMessage
Decoded(f) == f.ws = "text" /\ f.decodes

\* C16: for every decoded frame the inbound pump takes, what is on the input
\* channel afterwards is what was there followed by: the frame's data,
\* unchanged, for type input; one probe command, whatever the data, for type
\* request_system_info; nothing for any other type.  Items are appended, so
\* they are forwarded in the order received.  (When the adapter's end of the
\* channel is gone the send fails, the failure is ignored and the channel
\* stays as it is.)
C16_DispatchByType ==
    [][\A c \in Conns :
          (frameLog'[c] # frameLog[c] /\ Decoded(FrameTaken(c))) =>
              inq'[c] =
                  IF ~InReceiverAlive(c) THEN inq[c]
                  ELSE IF FrameTaken(c).type = "input"
                       THEN Append(inq[c], FrameTaken(c).data)
                  ELSE IF FrameTaken(c).type = "request_system_info"
                       THEN Append(inq[c], ProbeCmd)
                  ELSE inq[c]]_vars

\* a request_system_info frame with data and then an input frame were taken,
\* and the input channel holds a probe command followed by the payload
C16_Witness ==
    \E c \in Conns :
        /\ Len(frameLog[c]) = 2
        /\ frameLog[c][1].type = "request_system_info"
        /\ frameLog[c][1].data # << >>
        /\ frameLog[c][2].type = "input"
        /\ inq[c] = << ProbeCmd, frameLog[c][2].data >>

\* ------------------------------------------------------------------ C17 --
\* C17: a frame that is not a decodable text frame is dropped without effect:
\* taking it changes nothing but the record of frames taken, so nothing is
\* put on the input channel, the registry is as before, the inbound pump is
\* still receiving, and later frames meet the state they would have met
\* without it.
C17_MalformedFrameDropped ==
    [][\A c \in Conns :
          (frameLog'[c] # frameLog[c] /\ ~Decoded(FrameTaken(c))) =>
              /\ inq' = inq
              /\ sessions' = sessions
              /\ inPump'[c] = "recv"
              /\ UNCHANGED << connBudget, hs, sid, sock, out, outPump, inPump,
                              shell, child, stdoutPump, stderrPump, stdinPump,
                              stdinLog, chanLog, clientLog, failedWrites,
                              unregCount >>]_vars

\* an undecodable text frame was taken and the input frame after it was
\* forwarded
C17_Witness ==
    \E c \in Conns :
        /\ Len(frameLog[c]) = 2
        /\ frameLog[c][1].ws = "text"
        /\ ~frameLog[c][1].decodes
        /\ frameLog[c][2].type = "input"
        /\ inq[c] = << frameLog[c][2].data >>
        /\ inPump[c] = "recv"

\* ------------------------------------------------------------------ C18 --
\* the adapter task of c has ended with the error of a failed spawn
SpawnFailed(c) == shell[c] = "done" /\ child[c] = "none"

\* C18: when spawning the shell fails, no stdout, stderr or stdin pump is
\* ever started and nothing is ever written to a child's stdin, the adapter
\* task has ended, and handle_socket's wait returns.
C18_SpawnFailureAborts ==
    /\ [](\A c \in Conns :
             SpawnFailed(c) =>
                 /\ stdoutPump[c] = "none"
                 /\ stderrPump[c] = "none"
                 /\ stdinPump[c] = "none"
                 /\ stdinLog[c] = << >>)
    /\ \A c \in Conns : SpawnFailed(c) ~> hs[c] = "returned"

\* the spawn failed after the client had sent an input frame; the frame was
\* never written and handle_socket has returned
C18_Witness ==
    \E c \in Conns :
        /\ SpawnFailed(c)
        /\ hs[c] = "returned"
        /\ Len(frameLog[c]) = 1
        /\ frameLog[c][1].type = "input"
        /\ stdinLog[c] = << >>

\* ------------------------------------------------------------------ C19 --
\* the stdin pump of c makes a write in this step
WritesNow(c) == Len(stdinLog'[c]) > Len(stdinLog[c])

\* that write
WriteNow(c) == stdinLog'[c][Len(stdinLog'[c])]

\* a step that ends one pump of c leaves the other two pumps of c as they are
PumpEndsAlone(c) ==
    /\ (stdoutPump[c] = "read" /\ stdoutPump'[c] = "done") =>
           (stderrPump'[c] = stderrPump[c] /\ stdinPump'[c] = stdinPump[c])
    /\ (stderrPump[c] = "read" /\ stderrPump'[c] = "done") =>
           (stdoutPump'[c] = stdoutPump[c] /\ stdinPump'[c] = stdinPump[c])
    /\ (stdinPump[c] # "done" /\ stdinPump'[c] = "done") =>
           (stdoutPump'[c] = stdoutPump[c] /\ stderrPump'[c] = stderrPump[c])

\* a pump of c has ended
SomePumpDone(c) ==
    \/ stdoutPump[c] = "done"
    \/ stderrPump[c] = "done"
    \/ stdinPump[c] = "done"

\* C19 as stated: a read failure or end of stream on stdout or stderr, or a
\* failed write on the child's stdin, ends the pump that owns the pipe and
\* only that pump; the adapter then ends.
C19_PipeFailureEndsOwningPump ==
    /\ [][\A c \in Conns :
             /\ PumpEndsAlone(c)
             /\ (WritesNow(c) /\ ~WriteNow(c).ok) => stdinPump'[c] = "done"]_vars
    /\ \A c \in Conns : SomePumpDone(c) ~> shell[c] = "done"

\* C19, amended: a read failure or end of stream on stdout or stderr, or a
\* failed write of an input item or of its follow-up probe, ends the pump
\* that owns the pipe and only that pump; a failed write of a priming command
\* is ignored and the stdin pump goes on to its loop; the adapter ends once a
\* pump has ended.
C19_FailureEndsOwningPumpExceptPriming ==
    /\ [][\A c \in Conns :
             /\ PumpEndsAlone(c)
             /\ (WritesNow(c) /\ ~WriteNow(c).ok) =>
                    IF WriteNow(c).src \in {"client", "follow"}
                    THEN stdinPump'[c] = "done"
                    ELSE stdinPump'[c] = "recv"]_vars
    /\ \A c \in Conns : SomePumpDone(c) ~> shell[c] = "done"

\* the write of an input item failed and ended the stdin pump, the other two
\* pumps are still reading, and the adapter has ended
C19_Witness ==
    \E c \in Conns :
        /\ stdinPump[c] = "done"
        /\ stdinLog[c] # << >>
        /\ stdinLog[c][Len(stdinLog[c])].src = "client"
        /\ ~stdinLog[c][Len(stdinLog[c])].ok
        /\ stdoutPump[c] = "read"
        /\ stderrPump[c] = "read"
        /\ shell[c] = "done"

\* ------------------------------------------------------------------ C20 --
\* a String that is not the JSON of a TerminalMessage, given by its first
\* character, its content and its last character
RawText(t) == [open |-> Head(t), body |-> [text |-> t], close |-> t[Len(t)]]

\* Strings the outbound channel can carry besides envelopes
RawItems ==
    { RawText(<< "x", NL >>), RawText(<< "{", "x" >>), RawText(<< "x", "}" >>),
      RawText(<< "{", "x", "}" >>) }

\* envelopes as the stdout and stderr pumps make them
SampleEnvelopes ==
    { ToJson(StdoutMessage(PlainLine)), ToJson(StdoutMessage(MarkerLine)),
      ToJson(StderrMessage(MarkerLine)) }

\* the item is the JSON of a TerminalMessage
IsEnvelope(item) ==
    /\ item.open = "{"
    /\ item.close = "}"
    /\ DOMAIN item.body = {"type", "data", "system_info"}

\* while no write has failed, the client has got one message per drained
\* item, in channel order, each the item as it was put on the channel
\* (every item the pumps put there is an envelope), and what is not drained
\* is still queued
OneWritePerItem(c) ==
    failedWrites[c] = 0 =>
        /\ Len(clientLog[c]) + Len(out[c]) = Len(chanLog[c])
        /\ \A k \in 1..Len(clientLog[c]) :
              /\ IsEnvelope(chanLog[c][k].item)
              /\ clientLog[c][k] = chanLog[c][k].item
        /\ \A k \in 1..Len(out[c]) :
              out[c][k] = chanLog[c][Len(clientLog[c]) + k].item

HandlesMessage(c) ==
    \/ frameLog'[c] # frameLog[c]
    \/ stdoutStream'[c] # stdoutStream[c]
    \/ stderrStream'[c] # stderrStream[c]
    \/ stdinLog'[c] # stdinLog[c]
    \/ chanLog'[c] # chanLog[c]
    \/ clientLog'[c] # clientLog[c]
    \/ failedWrites'[c] # failedWrites[c]

\* the step is the start of the session of c and adds the entry of its id
RegistersNow(c) ==
    /\ hs[c] = "idle"
    /\ hs'[c] = "waiting"
    /\ sid'[c] \notin DOMAIN sessions
    /\ DOMAIN sessions' = (DOMAIN sessions) \cup {sid'[c]}
    /\ sessions'[sid'[c]] = c
    /\ \A id \in DOMAIN sessions : sessions'[id] = sessions[id]

\* the step is the end of the outbound pump of c and removes the entry of its
\* id
UnregistersNow(c) ==
    /\ outPump[c] = "cleanup"
    /\ outPump'[c] = "done"
    /\ DOMAIN sessions' = (DOMAIN sessions) \ {sid[c]}
    /\ \A id \in DOMAIN sessions' : sessions'[id] = sessions[id]

\* C21: the registry changes only by the one register at the start of a
\* session and by the unregister at its end; a step that handles a client
\* frame, a chunk of stdout or stderr, an item of the input channel or an
\* item of the outbound channel leaves the registry as it is.
C21_RegistryOnlyAtStartAndEnd ==
    [][/\ \A c \in Conns : HandlesMessage(c) => sessions' = sessions
       /\ sessions' # sessions =>
              \E c \in Conns : RegistersNow(c) \/ UnregistersNow(c)]_vars

\* a frame, a chunk of stdout, items of both channels have been handled and
\* the entry made at the start of the session is still the only one
C21_Witness ==
    \E c \in Conns :
        /\ Len(frameLog[c]) = 1
        /\ Len(stdoutStream[c]) = 1
        /\ Len(clientLog[c]) = 1
        /\ \E i \in 1..Len(stdinLog[c]) : stdinLog[c][i].src = "client"
        /\ DOMAIN sessions = {sid[c]}
        /\ sessions[sid[c]] = c

\* ------------------------------------------------------------------ C22 --
\* the positions, in the order of sending, of the items the pump of source
\* src has put on the outbound channel of c
SentPositions(c, src) == {k \in 1..Len(chanLog[c]) : chanLog[c][k].src = src}

\* C22: every chunk read from stderr is sent as one output envelope whose
\* data is the chunk and which has no system_info, also when the chunk is a
\* line of the full marker shape; the stderr pump never sends a system
\* envelope.  (A chunk read when the outbound pump is gone cannot be sent:
\* the send fails and the stderr pump ends.)
C22_StderrAlwaysOutput ==
    \A c \in Conns :
        /\ Cardinality(SentPositions(c, "stderr")) <= Len(stderrStream[c])
        /\ stderrPump[c] = "read" =>
               Cardinality(SentPositions(c, "stderr")) = Len(stderrStream[c])
        /\ \A k \in SentPositions(c, "stderr") :
               /\ chanLog[c][k].item.open = "{"
               /\ chanLog[c][k].item.close = "}"
               /\ chanLog[c][k].item.body.type = "output"
               /\ chanLog[c][k].item.body.system_info = << >>
               /\ chanLog[c][k].item.body.data =
                      stderrStream[c][SentFrom(c, "stderr", k)]

\* a line of the full marker shape was read from stderr and has reached the
\* client as output text
C22_Witness ==
    \E c \in Conns :
        /\ stderrStream[c] = << MarkerLine >>
        /\ \E k \in 1..Len(clientLog[c]) :
              /\ chanLog[c][k].src = "stderr"
              /\ clientLog[c][k].body.type = "output"
              /\ clientLog[c][k].body.data = MarkerLine

\* ------------------------------------------------------------------ C23 --
\* the step spawns the shell process of c
SpawnsNow(c) == child[c] = "none" /\ child'[c] = "running"

\* the pump, given by its state before and after the step, is not restarted:
\* it starts only together with the spawn and, once ended, stays ended
NotRestarted(c, before, after) ==
    /\ before = "done" => after = "done"
    /\ (before = "none" /\ after # "none") => SpawnsNow(c)
    /\ (before # "none") => after # "none"

\* C23: a session spawns at most one shell process: the adapter task starts
\* once, at the start of the session, and makes one spawn attempt; after a
\* failed spawn, an ended pump, an exited child or the end of the adapter no
\* child is spawned again and no pump is started again.
C23_AtMostOneShell ==
    [][\A c \in Conns :
          /\ (shell[c] # "start" /\ shell'[c] = "start") => hs[c] = "idle"
          /\ SpawnsNow(c) => shell[c] = "start" /\ shell'[c] = "select"
          /\ child[c] # "none" => child'[c] # "none"
          /\ child[c] = "exited" => child'[c] = "exited"
          /\ shell[c] = "done" => shell'[c] = "done"
          /\ NotRestarted(c, stdoutPump[c], stdoutPump'[c])
          /\ NotRestarted(c, stderrPump[c], stderrPump'[c])
          /\ NotRestarted(c, stdinPump[c], stdinPump'[c])]_vars

\* the child has exited, the three pumps and the adapter have ended,
\* handle_socket has returned, and the client is still connected
C23_Witness ==
    \E c \in Conns :
        /\ child[c] = "exited"
        /\ stdoutPump[c] = "done"
        /\ stderrPump[c] = "done"
        /\ stdinPump[c] = "done"
        /\ shell[c] = "done"
        /\ hs[c] = "returned"
        /\ sock[c] = "open"

\* ------------------------------------------------------------------ C24 --
\* the five other tasks of the session of c have finished, and so has
\* handle_socket
OthersFinished(c) ==
    /\ hs[c] = "returned"
    /\ inPump[c] = "done"
    /\ shell[c] = "done"
    /\ stdoutPump[c] = "done"
    /\ stderrPump[c] = "done"
    /\ stdinPump[c] = "done"

\* C24: the outbound pump leaves its loop only after a failed write to the
\* client: while it is in the loop the registry holds the entry of its
\* session, and with it a sender of the outbound channel, so the channel is
\* not closed, whatever the other tasks have done.
C24_OutPumpEndsOnlyAfterFailedWrite ==
    \A c \in Conns :
        /\ outPump[c] \in {"cleanup", "done"} => failedWrites[c] >= 1
        /\ outPump[c] = "recv" =>
               /\ sid[c] \in DOMAIN sessions
               /\ sessions[sid[c]] = c
        /\ (outPump[c] # "none" /\ failedWrites[c] = 0) => outPump[c] = "recv"

\* every other task has finished and the outbound pump still waits on the
\* empty channel
C24_Witness ==
    \E c \in Conns :
        /\ OthersFinished(c)
        /\ outPump[c] = "recv"
        /\ out[c] = << >>
        /\ failedWrites[c] = 0

\* ------------------------------------------------------------------ C25 --
\* what the inbound pump sends on the input channel for a frame
SentForFrame(f) ==
    IF Decoded(f) /\ f.type = "input" THEN << f.data >>
    ELSE IF Decoded(f) /\ f.type = "request_system_info" THEN << ProbeCmd >>
    ELSE << >>

RECURSIVE SentForFrames(_)
\* the items sent for a sequence of frames, in the order of the frames
SentForFrames(log) ==
    IF log = << >> THEN << >>
    ELSE SentForFrame(Head(log)) \o SentForFrames(Tail(log))

RECURSIVE ItemsWritten(_)
\* the texts of the input items in a record of writes, in the order written
ItemsWritten(log) ==
    IF log = << >> THEN << >>
    ELSE IF Head(log).src = "client"
         THEN << Head(log).text >> \o ItemsWritten(Tail(log))
         ELSE ItemsWritten(Tail(log))

\* the stdin pump of c is alive
StdinAlive(c) == stdinPump[c] \in {"prime_cd", "prime_probe", "recv", "settle"}

\* C25: while the stdin pump is alive, the items it has written followed by
\* the items still queued are the items the inbound pump forwarded, in the
\* client's order (none lost, none reordered); the priming writes come before
\* every other write; the write after an item that contains a newline is the
\* probe of that item, so it comes before the next item, and a probe that is
\* not a priming probe comes directly after such an item.
C25_ItemsInClientOrder ==
    \A c \in Conns :
        StdinAlive(c) =>
            /\ ItemsWritten(stdinLog[c]) \o inq[c] = SentForFrames(frameLog[c])
            /\ stdinPump[c] \in {"recv", "settle"} =>
                   (stdinLog[c] # << >> /\ stdinLog[c][1].src = "prime_cd")
            /\ \A i \in 1..Len(stdinLog[c]) :
                  /\ stdinLog[c][i].src = "prime_cd" => i = 1
                  /\ stdinLog[c][i].src = "prime_probe" =>
                         (i = 2 /\ stdinLog[c][1].src = "prime_cd")
                  /\ (stdinLog[c][i].src = "client"
                        /\ ContainsChar(stdinLog[c][i].text, NL)
                        /\ i < Len(stdinLog[c])) =>
                         stdinLog[c][i + 1].src = "follow"
                  /\ stdinLog[c][i].src = "follow" =>
                         /\ i > 1
                         /\ stdinLog[c][i - 1].src = "client"
                         /\ ContainsChar(stdinLog[c][i - 1].text, NL)
            /\ (stdinPump[c] = "recv" /\ stdinLog[c] # << >>
                  /\ stdinLog[c][Len(stdinLog[c])].src = "client") =>
                   ~ContainsChar(stdinLog[c][Len(stdinLog[c])].text, NL)

\* two different items were sent by the client and written in that order,
\* the probe of the first between them
C25_Witness ==
    \E c \in Conns :
        /\ StdinAlive(c)
        /\ Len(frameLog[c]) = 2
        /\ frameLog[c][1].type = "input"
        /\ frameLog[c][2].type = "input"
        /\ frameLog[c][1].data # frameLog[c][2].data
        /\ Len(stdinLog[c]) = 5
        /\ stdinLog[c][3].text = frameLog[c][1].data
        /\ stdinLog[c][4].src = "follow"
        /\ stdinLog[c][5].text = frameLog[c][2].data
        /\ inq[c] = << >>

\* ------------------------------------------------------------------ C26 --
RECURSIVE AfterPriming(_)
\* the writes of a record of writes that are not priming writes
AfterPriming(log) ==
    IF log = << >> THEN << >>
    ELSE IF Head(log).src \in {"prime_cd", "prime_probe"}
         THEN AfterPriming(Tail(log))
         ELSE log

\* the client has sent one frame, a decodable one of type
\* request_system_info, and the stdin pump has dealt with everything queued
\* and waits for the next item
SingleRequestHandled(c) ==
    /\ Len(frameLog[c]) = 1
    /\ Decoded(frameLog[c][1])
    /\ frameLog[c][1].type = "request_system_info"
    /\ stdinPump[c] = "recv"
    /\ inq[c] = << >>
    /\ stdinLog[c] # << >>

\* C26: one request_system_info frame makes the stdin pump write two probe
\* commands: the command the inbound pump forwarded, which is taken like any
\* input item, and, as that command contains a newline, the follow-up probe.
C26_RequestWritesTwoProbes ==
    /\ ContainsChar(ProbeCmd, NL)
    /\ \A c \in Conns :
          SingleRequestHandled(c) =>
              AfterPriming(stdinLog[c]) =
                  << [src |-> "client", text |-> ProbeCmd, ok |-> TRUE],
                     [src |-> "follow", text |-> ProbeCmd, ok |-> TRUE] >>

\* after both priming writes, the forwarded probe and its follow-up probe
\* have been written
C26_Witness ==
    \E c \in Conns :
        /\ SingleRequestHandled(c)
        /\ Len(stdinLog[c]) = 4
        /\ stdinLog[c][2].src = "prime_probe"
        /\ stdinLog[c][3].src = "client"
        /\ stdinLog[c][3].text = ProbeCmd
        /\ stdinLog[c][4].src = "follow"
        /\ stdinLog[c][4].ok

\* ------------------------------------------------------------------ C27 --
\* the indices of the lines of a chunk that contain the marker tag
TaggedLines(chunk) ==
    LET ls == Lines(chunk)
    IN  {i \in 1..Len(ls) : Contains(ls[i], TagColon)}

\* the parts, split on the colon, of the first line of a chunk that contains
\* the marker tag; <<>> when no line does
FirstTaggedParts(chunk) ==
    LET tagged == TaggedLines(chunk)
    IN  IF tagged = {} THEN << >>
        ELSE LET first == CHOOSE i \in tagged : \A j \in tagged : i <= j
             IN  Split(Lines(chunk)[first], ":")

\* the one envelope a chunk of stdout is turned into
EnvelopeOfChunk(chunk) ==
    LET parts == FirstTaggedParts(chunk)
    IN  IF Len(parts) >= 5
        THEN [open |-> "{",
              body |-> [type |-> "system",
                        data |-> SystemData,
                        system_info |->
                            << [pwd |-> Trim(parts[2]),
                                user |-> Trim(parts[3]),
                                hostname |-> Trim(parts[4]),
                                shell |-> Trim(parts[5])] >>],
              close |-> "}"]
        ELSE [open |-> "{",
              body |-> [type |-> "output", data |-> chunk,
                        system_info |-> << >>],
              close |-> "}"]

\* a second marker line, with another directory
MarkerLine2 == << TAG, ":", "q", ":", "u", ":", "h", ":", "s", NL >>

\* chunks with two lines that contain the marker tag
TwoMarkerChunks ==
    { MarkerLine \o MarkerLine2, MarkerLine \o ShortMarkerLine,
      ShortMarkerLine \o MarkerLine }

\* C27: the stdout pump puts at most one envelope on the outbound channel
\* for a chunk it reads: a system envelope built from parts two to five of
\* the first line that contains the marker tag, when that line has at least
\* five parts, and else an output envelope that holds the whole chunk; the
\* envelopes are sent in the order of the chunks.  A chunk with two marker
\* lines becomes one system envelope, built from the first of them (stated
\* for every chunk a pump that has just been started may come to read).
C27_OneEnvelopePerChunk ==
    \A c \in Conns :
        /\ Cardinality(SentPositions(c, "stdout")) <= Len(stdoutStream[c])
        /\ \A k \in SentPositions(c, "stdout") :
               chanLog[c][k].item =
                   EnvelopeOfChunk(stdoutStream[c][SentFrom(c, "stdout", k)])
        /\ (stdoutPump[c] = "read" /\ stdinPump[c] = "prime_cd"
              /\ stdoutStream[c] = << >>) =>
               /\ \A chunk \in StdoutChunks \cup TwoMarkerChunks :
                      ToJson(StdoutMessage(chunk)) = EnvelopeOfChunk(chunk)
               /\ EnvelopeOfChunk(MarkerLine \o MarkerLine2).body.type = "system"
               /\ EnvelopeOfChunk(MarkerLine \o MarkerLine2).body.system_info[1].pwd
                      = << "p" >>

\* a chunk with two lines that contain the marker tag was read and one
\* envelope, a system envelope made from the first line, was sent for it
C27_Witness ==
    \E c \in Conns :
        /\ stdoutStream[c] = << MarkerLine \o ShortMarkerLine >>
        /\ Len(chanLog[c]) = 1
        /\ chanLog[c][1].src = "stdout"
        /\ chanLog[c][1].item.body.type = "system"
        /\ chanLog[c][1].item.body.system_info[1].pwd = << "p" >>

====
